---- MODULE Spec2Model ----
(***************************************************************************)
(* Model of tracing-libatrace (src/src/lib.rs): the AtraceLayer that turns *)
(* tracing span/event callbacks into atrace begin/end markers.             *)
(*                                                                         *)
(* Text is modelled as a sequence of one-character strings, so that the    *)
(* separators the visitors write are visible to the properties.            *)
(***************************************************************************)
EXTENDS FiniteSets, Integers, Sequences, TLC

\* ------------------------------------------------------------------------
\* Bounds of the model
\* ------------------------------------------------------------------------

\* longest field set a callback presents
MaxFields == 2

\* deepest nesting of entered spans on the thread whose markers are paired
MaxDepth == 2

\* most references a span is given: its first handle, and clones of it or
\* child spans
MaxRefs == 2

\* how many spans a slot of the registry's pool holds one after the other
MaxGen == 2

\* ------------------------------------------------------------------------
\* Inputs: span ids, threads, span names, fields
\* ------------------------------------------------------------------------

Ids == {1, 2}

Threads == {1}

\* Option<T>
None == [some |-> FALSE, val |-> <<>>]

Some(x) == [some |-> TRUE, val |-> x]

NameReq == <<"r", "e", "q">>

NameA == <<"a">>

SpanNames == {NameReq, NameA}

\* the field name matched at lib.rs:179 and lib.rs:201
Message == <<"m", "e", "s", "s", "a", "g", "e">>

\* the prefix matched at lib.rs:184 and lib.rs:206
LogPrefix == <<"l", "o", "g", ".">>

FieldId == <<"i", "d">>

FieldLogX == <<"l", "o", "g", ".", "x">>

\* Values as the framework hands them to record_debug (&dyn fmt::Debug):
\* an integer, a string slice, or format arguments / a Debug impl that
\* writes the given text.
IntValue(n) == [kind |-> "int", int |-> n, chars |-> <<>>, codes |-> <<>>]

\* a string slice, given by the code points of its characters
StrValue(s) == [kind |-> "str", int |-> 0, chars |-> <<>>, codes |-> s]

ArgsValue(s) == [kind |-> "args", int |-> 0, chars |-> s, codes |-> <<>>]

\* a raw pointer (*const T) with the given address
PtrValue(a) == [kind |-> "ptr", int |-> a, chars |-> <<>>, codes |-> <<>>]

MkField(n, v) == [name |-> n, value |-> v]

FMessage == MkField(Message, ArgsValue(<<"h", "i">>))

FId == MkField(FieldId, IntValue(42))

\* the string slice "t"
FLogX == MkField(FieldLogX, StrValue(<<116>>))

Fields == {FMessage, FId, FLogX}

\* the field InstrumentExt::instrument records
FieldFut == <<"_", "_", "f", "u", "t">>

FFut(a) == MkField(FieldFut, PtrValue(a))

\* addresses of the instrumented computation
FutAddrs == {26, 255}

\* the span names whose metadata declares the field "__fut"
FutSpans == {NameA}

FieldNote == <<"n", "o", "t", "e">>

\* a message made of format arguments that hold a line break
FMessageNl == MkField(Message, ArgsValue(<<"a", "\n", "b">>))

\* a string slice that holds a line break
FNoteNl == MkField(FieldNote, StrValue(<<97, 10, 98>>))

ApiFields == {FId, FMessageNl, FNoteNl}

\* ordered field sets of at most k fields with pairwise different names
FieldSetsOf(F, k) ==
    UNION {{fs \in [1..n -> F] :
              \A i, j \in 1..n : i # j => fs[i].name # fs[j].name} : n \in 0..k}

FieldSets == FieldSetsOf(Fields, MaxFields)

\* field sets of one field at most, for the specification of the public API
ApiFieldSets == FieldSetsOf(ApiFields, 1)

ApiIds == {1}

\* the one span id of the specification that exercises the formatting
FormatIds == {1}

\* the span name of the specifications that look at pairing and at threads
LifeNames == {NameReq}

\* field sets of the specifications that look at pairing and at threads
PairFieldSets == FieldSetsOf({FId}, 1)

ThreadFieldSets == FieldSetsOf({FId}, 1)

Threads2 == {1, 2}

\* the thread that creates the spans: the ids of the model are slots of the
\* shard the registry's pool keeps for this thread, its first one
Creator == 1

\* the parent new_span may be given for the span in slot id, among the
\* slots S: none (a root span), or another span
Parents(S, id) == {None} \cup {Some(p) : p \in S \ {id}}

\* ------------------------------------------------------------------------
\* {:?} and {} formatting
\* ------------------------------------------------------------------------

Digit(d) == CASE d = 0 -> "0" [] d = 1 -> "1" [] d = 2 -> "2" [] d = 3 -> "3"
              [] d = 4 -> "4" [] d = 5 -> "5" [] d = 6 -> "6" [] d = 7 -> "7"
              [] d = 8 -> "8" [] d = 9 -> "9"

RECURSIVE Decimal(_)
Decimal(n) == IF n < 10 THEN <<Digit(n)>>
              ELSE Decimal(n \div 10) \o <<Digit(n % 10)>>

HexDigit(d) == CASE d < 10 -> Digit(d)
                [] d = 10 -> "a" [] d = 11 -> "b" [] d = 12 -> "c"
                [] d = 13 -> "d" [] d = 14 -> "e" [] d = 15 -> "f"

RECURSIVE LowerHex(_)
LowerHex(n) == IF n < 16 THEN <<HexDigit(n)>>
               ELSE LowerHex(n \div 16) \o <<HexDigit(n % 16)>>

\* the decimal digits of a number, least significant first
RECURSIVE Digits(_)
Digits(n) == IF n = 0 THEN <<>> ELSE <<n % 10>> \o Digits(n \div 10)

\* the sum of two numbers given by their digits, and a carry
RECURSIVE DigitsAdd(_, _, _)
DigitsAdd(a, b, carry) ==
    IF a = <<>> /\ b = <<>>
    THEN IF carry = 0 THEN <<>> ELSE <<carry>>
    ELSE LET x == IF a = <<>> THEN 0 ELSE Head(a)
             y == IF b = <<>> THEN 0 ELSE Head(b)
             sum == x + y + carry
         IN  <<sum % 10>> \o DigitsAdd(IF a = <<>> THEN a ELSE Tail(a),
                                       IF b = <<>> THEN b ELSE Tail(b),
                                       sum \div 10)

\* the product of a number given by its digits with a small number, and a
\* carry
RECURSIVE DigitsTimes(_, _, _)
DigitsTimes(a, m, carry) ==
    IF a = <<>> THEN Digits(carry)
    ELSE LET p == Head(a) * m + carry
         IN  <<p % 10>> \o DigitsTimes(Tail(a), m, p \div 10)

\* a << k, sixteen bits at a time
RECURSIVE DigitsShl(_, _)
DigitsShl(a, k) ==
    IF k <= 16 THEN DigitsTimes(a, 2 ^ k, 0)
    ELSE DigitsShl(DigitsTimes(a, 2 ^ 16, 0), k - 16)

\* the digits as text, most significant first
RECURSIVE DigitsText(_)
DigitsText(a) ==
    IF a = <<>> THEN "" ELSE DigitsText(Tail(a)) \o Digit(Head(a))

\* the bit of a pool index at which the generation of the slot starts: above
\* the address of the slot (38 bits) and the thread id of its shard (13 bits)
GenerationShift == 51

\* idx_to_id of the pool index of a slot of the first shard (thread id 0):
\* slot number slot (address slot - 1) at generation gen, plus one, as the
\* digits of Id::from_u64(idx + 1)
IdxToId(slot, gen) ==
    DigitsAdd(DigitsShl(Digits(gen), GenerationShift), Digits(slot), 0)

\* {:?} of the span::Id of each slot at each generation
IdDebug ==
    [slot \in Ids |->
        [gen \in 0..(MaxGen + 1) |->
            "Id(" \o DigitsText(IdxToId(slot, gen)) \o ")"]]

\* the printable ASCII characters, U+0020 to U+007E, in code point order;
\* the grave accent U+0060 is left out: a TLA+ string cannot hold it
AsciiPrintable ==
    << " ", "!", "\"", "#", "$", "%", "&", "'", "(", ")", "*", "+",
       ",", "-", ".", "/", "0", "1", "2", "3", "4", "5", "6", "7",
       "8", "9", ":", ";", "<", "=", ">", "?", "@", "A", "B", "C",
       "D", "E", "F", "G", "H", "I", "J", "K", "L", "M", "N", "O",
       "P", "Q", "R", "S", "T", "U", "V", "W", "X", "Y", "Z", "[",
       "\\", "]", "^", "_", "a", "b", "c", "d", "e", "f", "g",
       "h", "i", "j", "k", "l", "m", "n", "o", "p", "q", "r", "s",
       "t", "u", "v", "w", "x", "y", "z", "{", "|", "}", "~" >>

\* the character of a printable ASCII code point
Chr(cp) == IF cp < 96 THEN AsciiPrintable[cp - 31] ELSE AsciiPrintable[cp - 32]

\* \u{hex}: the escape of a code point that has no shorter one
UnicodeEscape(cp) == <<"\\", "u", "{">> \o LowerHex(cp) \o <<"}">>

\* Debug of a str, one character (char::escape_debug, no escape for the
\* single quote): NUL, tab, line feed, carriage return, the double quote and
\* the backslash get a backslash escape, every other control character and
\* DEL are written as \u{hex}, printable characters as they are.  The
\* characters are ASCII, given by code point: above U+007F the choice
\* follows the Unicode tables of core, which are outside this model.
EscapeChar(cp) ==
    CASE cp = 0 -> <<"\\", "0">>
      [] cp = 9 -> <<"\\", "t">>
      [] cp = 10 -> <<"\\", "n">>
      [] cp = 13 -> <<"\\", "r">>
      [] cp = 34 -> <<"\\", "\"">>
      [] cp = 92 -> <<"\\", "\\">>
      [] cp \in (1..31) \ {9, 10, 13} -> UnicodeEscape(cp)
      [] cp = 127 -> UnicodeEscape(cp)
      [] cp \in (32..126) \ {34, 92, 96} -> <<Chr(cp)>>

RECURSIVE EscapeDebug(_)
EscapeDebug(s) == IF s = <<>> THEN <<>>
                  ELSE EscapeChar(Head(s)) \o EscapeDebug(Tail(s))

\* write!(buf, "{:?}", value)
DebugFmt(v) ==
    CASE v.kind = "int" ->
            IF v.int < 0 THEN <<"-">> \o Decimal(0 - v.int) ELSE Decimal(v.int)
      [] v.kind = "str" -> <<"\"">> \o EscapeDebug(v.codes) \o <<"\"">>
      [] v.kind = "args" -> v.chars
      [] v.kind = "ptr" -> <<"0", "x">> \o LowerHex(v.int)

\* a comparison with the whole name instead of its beginning
StartsWithWhole(s, prefix) == s = prefix

\* name.starts_with(prefix)
StartsWith(s, prefix) ==
    /\ Len(s) >= Len(prefix)
    /\ SubSeq(s, 1, Len(prefix)) = prefix

\* ------------------------------------------------------------------------
\* The visitors
\* ------------------------------------------------------------------------

\* SpanVisitor::record_debug with comma set to "," instead of ""
SpanVisitorRecordDebugComma(buf, futobj_field, field, logFeature) ==
    IF futobj_field # None
    THEN IF futobj_field.val = field.name
         THEN buf \o DebugFmt(field.value)
         ELSE buf
    ELSE LET comma == <<",">> IN
         IF field.name = Message
         THEN buf \o comma \o <<" ">> \o DebugFmt(field.value)
         ELSE IF logFeature /\ StartsWith(field.name, LogPrefix)
         THEN buf
         ELSE buf \o comma \o <<" ">> \o field.name \o <<"=">>
                  \o DebugFmt(field.value)

\* SpanVisitor::record_debug: the text of buf after visiting one field
SpanVisitorRecordDebug(buf, futobj_field, field, logFeature) ==
    IF futobj_field # None
    THEN IF futobj_field.val = field.name
         THEN buf \o DebugFmt(field.value)
         ELSE buf
    ELSE LET comma == <<>> IN
         IF field.name = Message
         THEN buf \o comma \o <<" ">> \o DebugFmt(field.value)
         ELSE IF logFeature /\ StartsWith(field.name, LogPrefix)
         THEN buf
         ELSE buf \o comma \o <<" ">> \o field.name \o <<"=">>
                  \o DebugFmt(field.value)

\* EventVisitor::record_debug without the "message" arm
EventVisitorRecordDebugNoMessageArm(buf, field, logFeature) ==
    LET comma == <<>> IN
    IF logFeature /\ StartsWith(field.name, LogPrefix)
    THEN buf
    ELSE buf \o field.name \o <<"=">> \o DebugFmt(field.value)
             \o <<" ">> \o comma

\* EventVisitor::record_debug: the text of buf after visiting one field
EventVisitorRecordDebug(buf, field, logFeature) ==
    LET comma == <<>> IN
    IF field.name = Message
    THEN buf \o DebugFmt(field.value) \o <<" ">> \o comma
    ELSE IF logFeature /\ StartsWith(field.name, LogPrefix)
    THEN buf
    ELSE buf \o field.name \o <<"=">> \o DebugFmt(field.value)
             \o <<" ">> \o comma

\* attrs.record / values.record with a SpanVisitor over an empty buffer:
\* the fields are visited in presented order
RECURSIVE SpanVisit(_, _, _, _)
SpanVisit(buf, futobj_field, fs, logFeature) ==
    IF fs = <<>> THEN buf
    ELSE SpanVisit(SpanVisitorRecordDebug(buf, futobj_field, Head(fs), logFeature),
                   futobj_field, Tail(fs), logFeature)

\* event.record with an EventVisitor
RECURSIVE EventVisit(_, _, _)
EventVisit(buf, fs, logFeature) ==
    IF fs = <<>> THEN buf
    ELSE EventVisit(EventVisitorRecordDebug(buf, Head(fs), logFeature),
                    Tail(fs), logFeature)

\* the label without the "if !data.is_empty()" test
SpanLabelAlwaysComma(name, fs, logFeature) ==
    LET buf == name
        data == SpanVisit(<<>>, None, fs, logFeature)
    IN  buf \o <<",">> \o data

\* the label on_new_span and on_record compute: the name, then ",data"
\* when the visitor wrote anything
SpanLabel(name, fs, logFeature) ==
    LET buf == name
        data == SpanVisit(<<>>, None, fs, logFeature)
    IN  IF data # <<>> THEN buf \o <<",">> \o data ELSE buf

\* the text on_event passes to TRACE_BEGIN
EventText(fs, logFeature) == EventVisit(<<>>, fs, logFeature)

\* ------------------------------------------------------------------------
\* State
\* ------------------------------------------------------------------------

VARIABLES
    data_field,   \* AtraceLayer.data_field: None or Some(name)
    log_feature,  \* whether the crate is built with feature "tracing-log"
    parking_lot,  \* whether the extensions lock is parking_lot's (it cannot
                  \* be poisoned) or, as in the default build, std's
    registry,     \* ctx.span(id): the name of each span the registry holds
    refs,         \* the reference count of each span the registry holds
    parent,       \* the parent each span holds a reference to, or None
    generation,   \* how often each slot of the pool has been cleared
    closing,      \* where each thread is inside a close the registry runs
    exts,         \* the SpanFields extension of each span: its label, or None
    poisoned,     \* the spans (slots) whose extensions lock is poisoned
    markers,      \* the markers the last callback wrote to the sink, in order
    last,         \* the callback that ran last and how it ended
    created,      \* history: new-span processed for the id and no close since
    snapshot,     \* history: the field set of the latest new-span or record
    open,         \* history: ids entered and not yet exited, oldest first
    nested,       \* history: every exit so far was for the innermost open span
    stack,        \* sink: the begin markers not yet matched by an end
    matched,      \* sink: the begins the last callback's ends were matched with
    balance       \* sink: begin markers minus end markers written so far

\* the view the sink has of the marker sequence, and the callbacks behind it
hist == <<open, nested, stack, matched, balance>>

\* what is fixed once the layer is built and installed
config == <<data_field, log_feature, parking_lot>>

\* the bookkeeping of the registry that no callback of the layer touches
reg == <<refs, parent, generation, closing>>

vars == <<data_field, log_feature, parking_lot, registry, refs, parent,
          generation, closing, exts, poisoned, markers, last, created,
          snapshot, open, nested, stack, matched, balance>>

DataFieldOptions == {None, Some(FieldId)}

\* TRACE_BEGIN!("{}", text) on thread t
Begin(t, text) == [kind |-> "begin", payload |-> text, tid |-> t]

\* TRACE_END!() on thread t
End(t) == [kind |-> "end", payload |-> <<>>, tid |-> t]

Ok == "ok"

\* lib.rs:89 and lib.rs:107
PanicUnknownSpan == "unknown span"

\* lib.rs:142 and lib.rs:155
PanicExpectedSpan == "expected: span id exists in registry"

\* try_close that returns false: the span stays open, no layer is told
ReturnedFalse == "false"

\* the generation of the Id the registry issued last for the slot: the one
\* of the span it holds, or of the span it held before the slot was cleared
IssuedGeneration(id) ==
    IF registry[id] # None \/ generation[id] = 0 THEN generation[id]
    ELSE generation[id] - 1

\* Registry::try_close on an id the registry does not hold; the message
\* prints the Id
PanicNoSuchSpan(id) ==
    "tried to drop a ref to " \o IdDebug[id][IssuedGeneration(id)]
        \o ", but no such span exists!"

\* the expect("Mutex poisoned") of extensions() and extensions_mut() on a
\* poisoned lock: the message, then ": " and the {:?} of the PoisonError
PanicPoisoned == "Mutex poisoned: PoisonError { .. }"

PanicMissingFields == "missing fields"

PanicInsert == "assertion failed: self.replace(val).is_none()"

Call(op, t, id, fs, outcome, replaced) ==
    [op |-> op, tid |-> t, id |-> id, fields |-> fs, outcome |-> outcome,
     replaced |-> replaced]

\* Where a thread is inside Layered::try_close: at "drop" its CloseGuard for
\* span id is about to be dropped with is_closing set; at "release" the clear
\* of a span has taken the reference to its parent id and is about to call
\* try_close on it; outer are the spans whose clear is still running below;
\* panicking says that an on_close of this close has panicked and the
\* thread is unwinding.
Frame(at, id, panicking, outer) ==
    [at |-> at, id |-> id, panicking |-> panicking, outer |-> outer]

\* the thread is in no close
Idle == Frame("idle", 0, FALSE, <<>>)

\* a second panic while unwinding: the process is aborted
Aborted == Frame("abort", 0, TRUE, <<>>)

\* the process has not been aborted
Running == \A u \in Threads2 : closing[u].at # "abort"

\* thread t can take a call
Free(t) == Running /\ closing[t] = Idle

\* AtraceLayer::new() on unix: Ok(Self { data_field: None })
Init ==
    /\ data_field = None
    /\ log_feature \in BOOLEAN
    /\ parking_lot \in BOOLEAN
    /\ registry = [i \in Ids |-> None]
    /\ refs = [i \in Ids |-> 0]
    /\ parent = [i \in Ids |-> None]
    /\ generation = [i \in Ids |-> 0]
    /\ closing = [u \in Threads2 |-> Idle]
    /\ exts = [i \in Ids |-> None]
    /\ poisoned = [i \in Ids |-> FALSE]
    /\ markers = <<>>
    /\ last = Call("new", 0, 0, <<>>, Ok, FALSE)
    /\ created = [i \in Ids |-> FALSE]
    /\ snapshot = [i \in Ids |-> None]
    /\ open = <<>>
    /\ nested = TRUE
    /\ stack = <<>>
    /\ matched = <<>>
    /\ balance = 0

\* ------------------------------------------------------------------------
\* Operations
\* ------------------------------------------------------------------------

\* AtraceLayer::with_data_field: a builder, it consumes the layer, so it runs
\* before the layer is handed to the subscriber
WithDataField(x) ==
    /\ last.op \in {"new", "with_data_field"}
    /\ data_field' = x
    /\ last' = Call("with_data_field", 0, 0, <<>>, Ok, FALSE)
    /\ UNCHANGED <<log_feature, parking_lot, registry, exts, markers, created,
                   snapshot, poisoned>>

\* insert that overwrites silently (replace instead of insert)
ExtInsertNoAssert(e, id, label, parkingLot) ==
    [exts |-> [e EXCEPT ![id] = Some(label)], outcome |-> Ok,
     poisoned |-> FALSE]

\* span.extensions_mut().insert(SpanFields(buf)): the value is stored
\* (replace), and the call panics when a SpanFields was already there.  The
\* panic unwinds through the write guard of the span's extensions: with the
\* std lock of the default build the lock is left poisoned, with the
\* parking_lot lock it is not.
ExtInsert(e, id, label, parkingLot) ==
    [exts |-> [e EXCEPT ![id] = Some(label)],
     outcome |-> IF e[id] = None THEN Ok ELSE PanicInsert,
     poisoned |-> e[id] # None /\ ~parkingLot]

\* a panic of a callback that holds the write guard of the extensions of
\* span id: the std lock is poisoned, the parking_lot lock is not
PoisonedBy(id, panicked) ==
    IF panicked /\ ~parking_lot THEN [poisoned EXCEPT ![id] = TRUE]
    ELSE poisoned

\* Registry::new_span: the registry takes a free slot for the span, under
\* the name of its metadata, with one reference, before any layer is called;
\* a span made with a parent holds a reference to it (clone_span).  The
\* parent is a span the caller holds a reference to.  Which free slot the
\* pool hands out is left open.
RegistryNewSpan(t, id, name, par) ==
    /\ registry[id] = None
    /\ generation[id] < MaxGen
    /\ par.some =>
          /\ registry[par.val] # None
          /\ refs[par.val] >= 1
          /\ refs[par.val] < MaxRefs
    /\ registry' = [registry EXCEPT ![id] = Some(name)]
    /\ parent' = [parent EXCEPT ![id] = par]
    /\ refs' = [i \in Ids |->
                  IF i = id THEN 1
                  ELSE IF par.some /\ par.val = i THEN refs[i] + 1
                  ELSE refs[i]]
    /\ last' = Call("registry_new_span", t, id, <<>>, Ok, FALSE)
    /\ markers' = <<>>
    /\ UNCHANGED <<config, exts, created, snapshot, poisoned, generation,
                   closing>>

\* Registry::clone_span on a span the caller holds a reference to (a handle
\* is cloned): one reference more, no layer is called
CloneSpan(t, id) ==
    /\ registry[id] # None
    /\ refs[id] >= 1
    /\ refs[id] < MaxRefs
    /\ refs' = [refs EXCEPT ![id] = @ + 1]
    /\ last' = Call("clone_span", t, id, <<>>, Ok, FALSE)
    /\ markers' = <<>>
    /\ UNCHANGED <<config, registry, parent, generation, closing, exts,
                   created, snapshot, poisoned>>

\* the references to span id that the registry holds itself: one for each
\* child span, and one for each close that has taken the reference of a
\* cleared child and has not dropped it yet
Borrowed(id) ==
    Cardinality({c \in Ids : parent[c].some /\ parent[c].val = id})
      + Cardinality({u \in Threads2 :
                       closing[u].at = "release" /\ closing[u].id = id})

\* Drop of the CloseGuard of a close whose on_close calls are done (returned
\* or unwound): the pool clears the slot.  The span can no longer be looked
\* up, its extensions are cleared, the generation of the slot advances; the
\* lock of the slot stays as it is, poisoned or not, for the next span that
\* takes the slot.  Clearing takes the span's reference to its parent: the
\* thread goes on to call try_close on the parent.
RegistryClear(t, id) ==
    /\ Running
    /\ closing[t].at = "drop"
    /\ closing[t].id = id
    /\ registry' = [registry EXCEPT ![id] = None]
    /\ exts' = [exts EXCEPT ![id] = None]
    /\ generation' = [generation EXCEPT ![id] = @ + 1]
    /\ parent' = [parent EXCEPT ![id] = None]
    /\ created' = [created EXCEPT ![id] = FALSE]
    /\ snapshot' = [snapshot EXCEPT ![id] = None]
    /\ closing' = [closing EXCEPT ![t] =
                     IF parent[id].some
                     THEN Frame("release", parent[id].val, closing[t].panicking,
                                Append(closing[t].outer, id))
                     ELSE Idle]
    /\ last' = Call("registry_clear", t, id, <<>>, Ok, FALSE)
    /\ markers' = <<>>
    /\ UNCHANGED <<config, poisoned, refs>>

\* on_new_span that also traces the new label
OnNewSpanTrace(t, id, fs) ==
    /\ IF registry[id] = None
       THEN /\ last' = Call("new_span", t, id, <<>>, PanicUnknownSpan, FALSE)
            /\ markers' = <<>>
            /\ UNCHANGED <<exts, created, snapshot, poisoned>>
       ELSE IF poisoned[id]
       THEN /\ last' = Call("new_span", t, id, <<>>, PanicPoisoned, FALSE)
            /\ markers' = <<>>
            /\ UNCHANGED <<exts, created, snapshot, poisoned>>
       ELSE LET buf == SpanLabel(registry[id].val, fs, log_feature)
                ins == ExtInsert(exts, id, buf, parking_lot)
            IN  /\ exts' = ins.exts
                /\ last' = Call("new_span", t, id, <<>>, ins.outcome, FALSE)
                /\ markers' = <<Begin(t, buf)>>
                /\ created' = [created EXCEPT ![id] = TRUE]
                /\ snapshot' = [snapshot EXCEPT ![id] = Some(fs)]
                /\ poisoned' = [poisoned EXCEPT ![id] = ins.poisoned]
    /\ UNCHANGED <<config, registry>>

\* on_new_span: the span is looked up (lib.rs:89), the label is built from
\* its name and the attributes, the extensions are locked for writing and
\* the label is inserted
OnNewSpan(t, id, fs) ==
    /\ IF registry[id] = None
       THEN /\ last' = Call("new_span", t, id, <<>>, PanicUnknownSpan, FALSE)
            /\ UNCHANGED <<exts, created, snapshot, poisoned>>
       ELSE IF poisoned[id]
       THEN /\ last' = Call("new_span", t, id, <<>>, PanicPoisoned, FALSE)
            /\ UNCHANGED <<exts, created, snapshot, poisoned>>
       ELSE LET buf == SpanLabel(registry[id].val, fs, log_feature)
                ins == ExtInsert(exts, id, buf, parking_lot)
            IN  /\ exts' = ins.exts
                /\ last' = Call("new_span", t, id, <<>>, ins.outcome, FALSE)
                /\ created' = [created EXCEPT ![id] = TRUE]
                /\ snapshot' = [snapshot EXCEPT ![id] = Some(fs)]
                /\ poisoned' = [poisoned EXCEPT ![id] = ins.poisoned]
    /\ markers' = <<>>
    /\ UNCHANGED <<config, registry>>

\* the assignment without the comparison
RecordUpdateAlways(old_buf, buf) == [label |-> buf, replaced |-> TRUE]

\* "if buf != old_buf.as_ref() { *old_buf = buf; }": the label stored after
\* the comparison, and whether the assignment ran
RecordUpdate(old_buf, buf) ==
    IF buf # old_buf
    THEN [label |-> buf, replaced |-> TRUE]
    ELSE [label |-> old_buf, replaced |-> FALSE]

\* on_record that appends the new data to the stored label
RecordStepAppend(op, t, id, fs, noted) ==
    /\ IF registry[id] = None
       THEN /\ last' = Call(op, t, id, noted, PanicUnknownSpan, FALSE)
            /\ UNCHANGED <<exts, snapshot, poisoned>>
       ELSE IF poisoned[id]
       THEN /\ last' = Call(op, t, id, noted, PanicPoisoned, FALSE)
            /\ UNCHANGED <<exts, snapshot, poisoned>>
       ELSE IF exts[id] = None
       THEN /\ last' = Call(op, t, id, noted, PanicMissingFields, FALSE)
            /\ poisoned' = PoisonedBy(id, TRUE)
            /\ UNCHANGED <<exts, snapshot>>
       ELSE LET old_buf == exts[id].val
                data == SpanVisit(<<>>, None, fs, log_feature)
                buf == IF data # <<>> THEN old_buf \o <<",">> \o data
                                      ELSE old_buf
                upd == RecordUpdate(old_buf, buf)
            IN  /\ exts' = [exts EXCEPT ![id] = Some(upd.label)]
                /\ last' = Call(op, t, id, noted, Ok, upd.replaced)
                /\ snapshot' = [snapshot EXCEPT ![id] = Some(fs)]
                /\ UNCHANGED poisoned
    /\ markers' = <<>>
    /\ UNCHANGED <<config, registry, created>>

\* the body of on_record, run for the operation op (a record callback of the
\* framework, or the record that instrument makes); noted are the fields
\* kept in last.  The extensions are locked for writing before the
\* SpanFields is looked up, so the "missing fields" panic unwinds through the
\* write guard.
RecordStep(op, t, id, fs, noted) ==
    /\ IF registry[id] = None
       THEN /\ last' = Call(op, t, id, noted, PanicUnknownSpan, FALSE)
            /\ UNCHANGED <<exts, snapshot, poisoned>>
       ELSE IF poisoned[id]
       THEN /\ last' = Call(op, t, id, noted, PanicPoisoned, FALSE)
            /\ UNCHANGED <<exts, snapshot, poisoned>>
       ELSE IF exts[id] = None
       THEN /\ last' = Call(op, t, id, noted, PanicMissingFields, FALSE)
            /\ poisoned' = PoisonedBy(id, TRUE)
            /\ UNCHANGED <<exts, snapshot>>
       ELSE LET old_buf == exts[id].val
                buf == SpanLabel(registry[id].val, fs, log_feature)
                upd == RecordUpdate(old_buf, buf)
            IN  /\ exts' = [exts EXCEPT ![id] = Some(upd.label)]
                /\ last' = Call(op, t, id, noted, Ok, upd.replaced)
                /\ snapshot' = [snapshot EXCEPT ![id] = Some(fs)]
                /\ UNCHANGED poisoned
    /\ markers' = <<>>
    /\ UNCHANGED <<config, registry, created>>

\* on_record: the label is recomputed from the presented values and stored
\* when it differs from the stored one
OnRecord(t, id, fs) == RecordStep("record", t, id, fs, <<>>)

\* instrument that attaches the span without recording anything
InstrumentNoRecord(t, id, a) ==
    /\ registry[id] # None
    /\ refs[id] > Borrowed(id)
    /\ last' = Call("instrument", t, id, <<FFut(a)>>, Ok, FALSE)
    /\ markers' = <<>>
    /\ UNCHANGED <<config, registry, exts, created, snapshot, poisoned, refs,
                   closing>>

\* InstrumentExt::instrument on a computation at address a and a span handle
\* for id, which the call owns: span.record("__fut", &d) reaches on_record,
\* with that one value, when the span's metadata has the field; T::instrument
\* then wraps the computation with the handle and calls nothing.  When
\* on_record panics, the handle is dropped as the call unwinds:
\* Registry::try_close counts its reference down, and if it was the last one
\* on_close runs on the unwinding thread.  That on_close panics as on_record
\* did (the lock is poisoned, or there is still no SpanFields), and a panic
\* while unwinding aborts the process.
Instrument(t, id, a) ==
    /\ registry[id] # None
    /\ refs[id] > Borrowed(id)
    /\ LET d == FFut(a)
       IN  IF registry[id].val \in FutSpans
           THEN /\ RecordStep("instrument", t, id, <<d>>, <<d>>)
                /\ IF last'.outcome = Ok
                   THEN UNCHANGED <<refs, closing>>
                   ELSE /\ refs' = [refs EXCEPT ![id] = @ - 1]
                        /\ closing' = IF refs[id] > 1 THEN closing
                                      ELSE [closing EXCEPT ![t] = Aborted]
           ELSE /\ last' = Call("instrument", t, id, <<d>>, Ok, FALSE)
                /\ markers' = <<>>
                /\ UNCHANGED <<config, registry, exts, created, snapshot,
                               poisoned, refs, closing>>

\* on_event without the TRACE_END
OnEventNoEnd(t, fs) ==
    /\ LET buf == EventText(fs, log_feature)
       IN  markers' = <<Begin(t, buf)>>
    /\ last' = Call("event", t, 0, fs, Ok, FALSE)
    /\ UNCHANGED <<config, registry, exts, created, snapshot, poisoned>>

\* on_event: TRACE_BEGIN with the event text, then TRACE_END
OnEvent(t, fs) ==
    /\ LET buf == EventText(fs, log_feature)
       IN  markers' = <<Begin(t, buf), End(t)>>
    /\ last' = Call("event", t, 0, fs, Ok, FALSE)
    /\ UNCHANGED <<config, registry, exts, created, snapshot, poisoned>>

\* on_enter that traces the span's name instead of the stored label
OnEnterName(t, id) ==
    /\ IF registry[id] = None
       THEN /\ last' = Call("enter", t, id, <<>>, PanicExpectedSpan, FALSE)
            /\ markers' = <<>>
       ELSE IF poisoned[id]
       THEN /\ last' = Call("enter", t, id, <<>>, PanicPoisoned, FALSE)
            /\ markers' = <<>>
       ELSE IF exts[id] = None
       THEN /\ last' = Call("enter", t, id, <<>>, PanicMissingFields, FALSE)
            /\ markers' = <<>>
       ELSE /\ markers' = <<Begin(t, registry[id].val)>>
            /\ last' = Call("enter", t, id, <<>>, Ok, FALSE)
    /\ UNCHANGED <<config, registry, exts, created, snapshot, poisoned>>

\* on_enter that traces an empty label when the span or its fields are missing
OnEnterLenient(t, id) ==
    /\ IF registry[id] = None \/ poisoned[id] \/ exts[id] = None
       THEN /\ markers' = <<Begin(t, <<>>)>>
            /\ last' = Call("enter", t, id, <<>>, Ok, FALSE)
       ELSE /\ markers' = <<Begin(t, exts[id].val)>>
            /\ last' = Call("enter", t, id, <<>>, Ok, FALSE)
    /\ UNCHANGED <<config, registry, exts, created, snapshot, poisoned>>

\* on_enter: the span is looked up (lib.rs:142), its extensions are locked
\* for reading, and TRACE_BEGIN is called with the stored label; a panic
\* under the read guard poisons nothing
OnEnter(t, id) ==
    /\ IF registry[id] = None
       THEN /\ last' = Call("enter", t, id, <<>>, PanicExpectedSpan, FALSE)
            /\ markers' = <<>>
       ELSE IF poisoned[id]
       THEN /\ last' = Call("enter", t, id, <<>>, PanicPoisoned, FALSE)
            /\ markers' = <<>>
       ELSE IF exts[id] = None
       THEN /\ last' = Call("enter", t, id, <<>>, PanicMissingFields, FALSE)
            /\ markers' = <<>>
       ELSE /\ markers' = <<Begin(t, exts[id].val)>>
            /\ last' = Call("enter", t, id, <<>>, Ok, FALSE)
    /\ UNCHANGED <<config, registry, exts, created, snapshot, poisoned>>

\* on_exit that looks the span up first
OnExitChecked(t, id) ==
    /\ IF registry[id] = None
       THEN /\ last' = Call("exit", t, id, <<>>, PanicExpectedSpan, FALSE)
            /\ markers' = <<>>
       ELSE /\ markers' = <<End(t)>>
            /\ last' = Call("exit", t, id, <<>>, Ok, FALSE)
    /\ UNCHANGED <<config, registry, exts, created, snapshot, poisoned>>

\* on_exit that writes the end marker twice
OnExitTwice(t, id) ==
    /\ markers' = <<End(t), End(t)>>
    /\ last' = Call("exit", t, id, <<>>, Ok, FALSE)
    /\ UNCHANGED <<config, registry, exts, created, snapshot, poisoned>>

\* on_exit: TRACE_END, whatever the id
OnExit(t, id) ==
    /\ markers' = <<End(t)>>
    /\ last' = Call("exit", t, id, <<>>, Ok, FALSE)
    /\ UNCHANGED <<config, registry, exts, created, snapshot, poisoned>>

\* on_close that leaves the SpanFields extension in place
OnCloseKeep(t, id) ==
    /\ IF registry[id] = None
       THEN /\ last' = Call("close", t, id, <<>>, PanicExpectedSpan, FALSE)
            /\ UNCHANGED <<exts, created, snapshot, poisoned>>
       ELSE IF poisoned[id]
       THEN /\ last' = Call("close", t, id, <<>>, PanicPoisoned, FALSE)
            /\ UNCHANGED <<exts, created, snapshot, poisoned>>
       ELSE IF exts[id] = None
       THEN /\ last' = Call("close", t, id, <<>>, PanicMissingFields, FALSE)
            /\ poisoned' = PoisonedBy(id, TRUE)
            /\ UNCHANGED <<exts, created, snapshot>>
       ELSE /\ exts' = exts
            /\ last' = Call("close", t, id, <<>>, Ok, FALSE)
            /\ created' = [created EXCEPT ![id] = FALSE]
            /\ snapshot' = [snapshot EXCEPT ![id] = None]
            /\ UNCHANGED poisoned
    /\ markers' = <<>>
    /\ UNCHANGED <<config, registry>>

\* on_close that removes the SpanFields extension of every span
OnCloseAll(t, id) ==
    /\ IF registry[id] = None
       THEN /\ last' = Call("close", t, id, <<>>, PanicExpectedSpan, FALSE)
            /\ UNCHANGED <<exts, created, snapshot, poisoned>>
       ELSE IF poisoned[id]
       THEN /\ last' = Call("close", t, id, <<>>, PanicPoisoned, FALSE)
            /\ UNCHANGED <<exts, created, snapshot, poisoned>>
       ELSE IF exts[id] = None
       THEN /\ last' = Call("close", t, id, <<>>, PanicMissingFields, FALSE)
            /\ poisoned' = PoisonedBy(id, TRUE)
            /\ UNCHANGED <<exts, created, snapshot>>
       ELSE /\ exts' = [i \in Ids |-> None]
            /\ last' = Call("close", t, id, <<>>, Ok, FALSE)
            /\ created' = [created EXCEPT ![id] = FALSE]
            /\ snapshot' = [snapshot EXCEPT ![id] = None]
            /\ UNCHANGED poisoned
    /\ markers' = <<>>
    /\ UNCHANGED <<config, registry>>

\* on_close: the span is looked up (lib.rs:155), its extensions are locked
\* for writing and the SpanFields is removed; the "missing fields" panic
\* unwinds through the write guard.  The span stays in the registry: the
\* registry drops it after the layers have returned.
OnClose(t, id) ==
    /\ IF registry[id] = None
       THEN /\ last' = Call("close", t, id, <<>>, PanicExpectedSpan, FALSE)
            /\ UNCHANGED <<exts, created, snapshot, poisoned>>
       ELSE IF poisoned[id]
       THEN /\ last' = Call("close", t, id, <<>>, PanicPoisoned, FALSE)
            /\ UNCHANGED <<exts, created, snapshot, poisoned>>
       ELSE IF exts[id] = None
       THEN /\ last' = Call("close", t, id, <<>>, PanicMissingFields, FALSE)
            /\ poisoned' = PoisonedBy(id, TRUE)
            /\ UNCHANGED <<exts, created, snapshot>>
       ELSE /\ exts' = [exts EXCEPT ![id] = None]
            /\ last' = Call("close", t, id, <<>>, Ok, FALSE)
            /\ created' = [created EXCEPT ![id] = FALSE]
            /\ snapshot' = [snapshot EXCEPT ![id] = None]
            /\ UNCHANGED poisoned
    /\ markers' = <<>>
    /\ UNCHANGED <<config, registry>>

\* Layered::try_close, up to the return of the layer's on_close.  It is
\* called by a caller that drops a reference it holds (or names an id the
\* registry does not hold), and by the clear of a child span for the
\* reference the child held.  Registry::try_close panics for an id it does
\* not hold (it returns false instead when the thread is unwinding) and
\* counts the reference down; while other references are left it returns
\* false and no layer is called.  For the last reference the layer's
\* on_close runs, and whether that returns or panics the CloseGuard is
\* dropped next with is_closing set.  An on_close that panics while the
\* thread is unwinding from an earlier one aborts the process.
TryClose(t, id) ==
    /\ Running
    /\ \/ closing[t] = Idle /\ (registry[id] = None \/ refs[id] > Borrowed(id))
       \/ closing[t].at = "release" /\ closing[t].id = id
    /\ IF registry[id] = None
       THEN /\ last' = Call("try_close", t, id, <<>>,
                            IF closing[t].panicking THEN ReturnedFalse
                            ELSE PanicNoSuchSpan(id), FALSE)
            /\ markers' = <<>>
            /\ closing' = [closing EXCEPT ![t] = Idle]
            /\ UNCHANGED <<config, registry, refs, parent, generation, exts,
                           created, snapshot, poisoned>>
       ELSE IF refs[id] > 1
       THEN /\ refs' = [refs EXCEPT ![id] = @ - 1]
            /\ last' = Call("try_close", t, id, <<>>, ReturnedFalse, FALSE)
            /\ markers' = <<>>
            /\ closing' = [closing EXCEPT ![t] = Idle]
            /\ UNCHANGED <<config, registry, parent, generation, exts,
                           created, snapshot, poisoned>>
       ELSE /\ refs' = [refs EXCEPT ![id] = @ - 1]
            /\ OnClose(t, id)
            /\ closing' = [closing EXCEPT ![t] =
                             IF closing[t].panicking /\ last'.outcome # Ok
                             THEN Aborted
                             ELSE Frame("drop", id,
                                        closing[t].panicking
                                           \/ last'.outcome # Ok,
                                        closing[t].outer)]
            /\ UNCHANGED <<parent, generation>>

\* The sink pairs markers by a stack: a begin is pushed with the callback
\* that wrote it, an end pops the most recent unmatched begin.
RECURSIVE SinkApply(_, _, _)
SinkApply(sk, ms, src) ==
    IF ms = <<>> THEN [stack |-> sk, matched |-> <<>>]
    ELSE IF Head(ms).kind = "begin"
    THEN SinkApply(Append(sk, src), Tail(ms), src)
    ELSE LET rest == SinkApply(IF sk = <<>> THEN sk ELSE SubSeq(sk, 1, Len(sk) - 1),
                               Tail(ms), src)
         IN  [stack |-> rest.stack,
              matched |-> (IF sk = <<>> THEN <<>> ELSE <<sk[Len(sk)]>>)
                             \o rest.matched]

\* begin markers minus end markers of a marker sequence
RECURSIVE Net(_)
Net(ms) ==
    IF ms = <<>> THEN 0
    ELSE (IF Head(ms).kind = "begin" THEN 1 ELSE 0 - 1) + Net(Tail(ms))

\* the callback that wrote a marker
Source(op, id) == [op |-> op, id |-> id]

InOpen(id) == \E k \in 1..Len(open) : open[k] = id

\* open without its last occurrence of id
RemoveLast(seq, id) ==
    IF \E k \in 1..Len(seq) : seq[k] = id
    THEN LET k == CHOOSE k \in 1..Len(seq) :
                     /\ seq[k] = id
                     /\ \A j \in (k + 1)..Len(seq) : seq[j] # id
         IN  SubSeq(seq, 1, k - 1) \o SubSeq(seq, k + 1, Len(seq))
    ELSE seq

\* what the sink and the history make of the callback that just ran
Track ==
    /\ LET sunk == SinkApply(stack, markers', Source(last'.op, last'.id))
       IN  /\ stack' = sunk.stack
           /\ matched' = sunk.matched
    /\ balance' = balance + Net(markers')
    /\ open' = IF last'.op = "enter" /\ last'.outcome = Ok
               THEN Append(open, last'.id)
               ELSE IF last'.op = "exit" THEN RemoveLast(open, last'.id)
               ELSE open
    /\ nested' = IF last'.op = "exit"
                 THEN nested /\ open # <<>> /\ open[Len(open)] = last'.id
                 ELSE nested

\* The registry and the layer's callbacks on one span id, with every field
\* set: a callback may come whatever the registry holds.  A thread that is
\* inside a close takes no other step until the close is through.
Next ==
    \/ \E id \in FormatIds, name \in SpanNames : \E par \in Parents(FormatIds, id) :
          /\ Free(Creator)
          /\ RegistryNewSpan(Creator, id, name, par) /\ UNCHANGED hist
    \/ \E t \in Threads, id \in FormatIds :
          Free(t) /\ CloneSpan(t, id) /\ UNCHANGED hist
    \/ \E t \in Threads, id \in FormatIds, fs \in FieldSets :
          Free(t) /\ OnNewSpan(t, id, fs) /\ UNCHANGED <<hist, reg>>
    \/ \E t \in Threads, id \in FormatIds, fs \in FieldSets :
          Free(t) /\ OnRecord(t, id, fs) /\ UNCHANGED <<hist, reg>>
    \/ \E t \in Threads, fs \in FieldSets :
          Free(t) /\ OnEvent(t, fs) /\ UNCHANGED <<hist, reg>>
    \/ \E t \in Threads, id \in FormatIds :
          /\ Free(t)
          /\ OnEnter(t, id) /\ UNCHANGED <<hist, reg>>
    \/ \E t \in Threads, id \in FormatIds :
          /\ Free(t)
          /\ OnExit(t, id) /\ UNCHANGED <<hist, reg>>
    \/ \E t \in Threads, id \in FormatIds :
          Free(t) /\ OnClose(t, id) /\ UNCHANGED <<hist, reg>>
    \/ \E t \in Threads, id \in FormatIds : TryClose(t, id) /\ UNCHANGED hist
    \/ \E t \in Threads, id \in FormatIds : RegistryClear(t, id) /\ UNCHANGED hist

Spec == Init /\ [][Next]_vars

\* The layer as a program uses it through its public API: configured with
\* with_data_field, driven by callbacks whose texts hold line breaks, and
\* with spans handed to instrument.
NextApi ==
    \/ \E x \in DataFieldOptions :
          WithDataField(x) /\ UNCHANGED <<hist, reg>>
    \/ \E id \in ApiIds, name \in SpanNames : \E par \in Parents(ApiIds, id) :
          /\ Free(Creator)
          /\ RegistryNewSpan(Creator, id, name, par) /\ UNCHANGED hist
    \/ \E t \in Threads, id \in ApiIds :
          Free(t) /\ CloneSpan(t, id) /\ UNCHANGED hist
    \/ \E t \in Threads, id \in ApiIds, fs \in ApiFieldSets :
          Free(t) /\ OnNewSpan(t, id, fs) /\ UNCHANGED <<hist, reg>>
    \/ \E t \in Threads, id \in ApiIds, fs \in ApiFieldSets :
          Free(t) /\ OnRecord(t, id, fs) /\ UNCHANGED <<hist, reg>>
    \/ \E t \in Threads, fs \in ApiFieldSets :
          Free(t) /\ OnEvent(t, fs) /\ UNCHANGED <<hist, reg>>
    \/ \E t \in Threads, id \in ApiIds :
          /\ Free(t)
          /\ OnEnter(t, id) /\ UNCHANGED <<hist, reg>>
    \/ \E t \in Threads, id \in ApiIds :
          /\ Free(t)
          /\ OnExit(t, id) /\ UNCHANGED <<hist, reg>>
    \/ \E t \in Threads, id \in ApiIds :
          Free(t) /\ OnClose(t, id) /\ UNCHANGED <<hist, reg>>
    \/ \E t \in Threads, id \in ApiIds : TryClose(t, id) /\ UNCHANGED hist
    \/ \E t \in Threads, id \in ApiIds : RegistryClear(t, id) /\ UNCHANGED hist
    \/ \E t \in Threads, id \in ApiIds, a \in FutAddrs :
          /\ Free(t)
          /\ Instrument(t, id, a) /\ UNCHANGED <<hist, parent, generation>>

SpecApi == Init /\ [][NextApi]_vars

\* The callbacks of one thread with the sink's pairing of its markers.  The
\* framework delivers exit(id) only for a span that was entered and not yet
\* exited.  The spans are root spans with one handle each, in slots that
\* are given out once: what the sink pairs does not depend on the
\* references and the generations the registry counts.
NextPair ==
    \/ \E id \in Ids, name \in LifeNames : \E par \in {None} :
          /\ Free(Creator)
          /\ generation[id] = 0
          /\ RegistryNewSpan(Creator, id, name, par) /\ Track
    \/ \E t \in Threads, id \in Ids, fs \in PairFieldSets :
          Free(t) /\ OnNewSpan(t, id, fs) /\ Track /\ UNCHANGED reg
    \/ \E t \in Threads, id \in Ids, fs \in PairFieldSets :
          Free(t) /\ OnRecord(t, id, fs) /\ Track /\ UNCHANGED reg
    \/ \E t \in Threads, fs \in PairFieldSets :
          Free(t) /\ OnEvent(t, fs) /\ Track /\ UNCHANGED reg
    \/ \E t \in Threads, id \in Ids :
          /\ Free(t)
          /\ Len(open) < MaxDepth
          /\ OnEnter(t, id) /\ Track /\ UNCHANGED reg
    \/ \E t \in Threads, id \in Ids :
          /\ Free(t)
          /\ InOpen(id)
          /\ OnExit(t, id) /\ Track /\ UNCHANGED reg
    \/ \E t \in Threads, id \in Ids :
          Free(t) /\ OnClose(t, id) /\ Track /\ UNCHANGED reg
    \/ \E t \in Threads, id \in Ids : TryClose(t, id) /\ Track
    \/ \E t \in Threads, id \in Ids : RegistryClear(t, id) /\ Track

SpecPair == Init /\ [][NextPair]_vars

\* The registry and the callbacks as two threads drive them, in any
\* interleaving; a callback holds the lock of its span's extensions, so
\* callbacks on one id are serial.  While one thread is inside a close the
\* other one goes on.  Each slot of the pool is given out once here; slots
\* that are given out again are in Spec and SpecLife.
NextThreads ==
    \/ \E id \in Ids, name \in LifeNames : \E par \in Parents(Ids, id) :
          /\ Free(Creator)
          /\ generation[id] = 0
          /\ RegistryNewSpan(Creator, id, name, par) /\ UNCHANGED hist
    \/ \E t \in Threads2, id \in Ids :
          Free(t) /\ CloneSpan(t, id) /\ UNCHANGED hist
    \/ \E t \in Threads2, id \in Ids, fs \in ThreadFieldSets :
          Free(t) /\ OnNewSpan(t, id, fs) /\ UNCHANGED <<hist, reg>>
    \/ \E t \in Threads2, id \in Ids, fs \in ThreadFieldSets :
          Free(t) /\ OnRecord(t, id, fs) /\ UNCHANGED <<hist, reg>>
    \/ \E t \in Threads2, fs \in ThreadFieldSets :
          Free(t) /\ OnEvent(t, fs) /\ UNCHANGED <<hist, reg>>
    \/ \E t \in Threads2, id \in Ids :
          /\ Free(t)
          /\ OnEnter(t, id) /\ UNCHANGED <<hist, reg>>
    \/ \E t \in Threads2, id \in Ids :
          /\ Free(t)
          /\ OnExit(t, id) /\ UNCHANGED <<hist, reg>>
    \/ \E t \in Threads2, id \in Ids :
          Free(t) /\ OnClose(t, id) /\ UNCHANGED <<hist, reg>>
    \/ \E t \in Threads2, id \in Ids : TryClose(t, id) /\ UNCHANGED hist
    \/ \E t \in Threads2, id \in Ids : RegistryClear(t, id) /\ UNCHANGED hist

SpecThreads == Init /\ [][NextThreads]_vars

\* The life of two spans on one thread: either may be the other's parent,
\* handles are cloned and dropped, and a slot that was cleared is given out
\* again at the next generation.
NextLife ==
    \/ \E id \in Ids, name \in LifeNames : \E par \in Parents(Ids, id) :
          /\ Free(Creator)
          /\ RegistryNewSpan(Creator, id, name, par) /\ UNCHANGED hist
    \/ \E t \in Threads, id \in Ids :
          Free(t) /\ CloneSpan(t, id) /\ UNCHANGED hist
    \/ \E t \in Threads, id \in Ids, fs \in ThreadFieldSets :
          Free(t) /\ OnNewSpan(t, id, fs) /\ UNCHANGED <<hist, reg>>
    \/ \E t \in Threads, id \in Ids, fs \in ThreadFieldSets :
          Free(t) /\ OnRecord(t, id, fs) /\ UNCHANGED <<hist, reg>>
    \/ \E t \in Threads, fs \in ThreadFieldSets :
          Free(t) /\ OnEvent(t, fs) /\ UNCHANGED <<hist, reg>>
    \/ \E t \in Threads, id \in Ids :
          /\ Free(t)
          /\ OnEnter(t, id) /\ UNCHANGED <<hist, reg>>
    \/ \E t \in Threads, id \in Ids :
          /\ Free(t)
          /\ OnExit(t, id) /\ UNCHANGED <<hist, reg>>
    \/ \E t \in Threads, id \in Ids :
          Free(t) /\ OnClose(t, id) /\ UNCHANGED <<hist, reg>>
    \/ \E t \in Threads, id \in Ids : TryClose(t, id) /\ UNCHANGED hist
    \/ \E t \in Threads, id \in Ids : RegistryClear(t, id) /\ UNCHANGED hist

SpecLife == Init /\ [][NextLife]_vars

TypeOK ==
    /\ data_field \in DataFieldOptions
    /\ log_feature \in BOOLEAN
    /\ parking_lot \in BOOLEAN
    /\ refs \in [Ids -> 0..MaxRefs]
    /\ generation \in [Ids -> 0..MaxGen]
    /\ \A i \in Ids : parent[i] \in Parents(Ids, i)
    /\ \A i \in Ids : registry[i] = None => (refs[i] = 0 /\ parent[i] = None)
    /\ \A i \in Ids : parent[i].some => registry[parent[i].val] # None
    /\ \A i \in Ids : registry[i] # None => refs[i] >= Borrowed(i)
    /\ \A u \in Threads2 :
          /\ closing[u].at \in {"idle", "drop", "release", "abort"}
          /\ closing[u].at = "drop" =>
                registry[closing[u].id] # None /\ refs[closing[u].id] = 0
          /\ closing[u].at = "release" => registry[closing[u].id] # None
    /\ poisoned \in [Ids -> BOOLEAN]
    /\ \A i \in Ids : poisoned[i] => ~parking_lot
    /\ \A i \in Ids : exts[i] # None => registry[i] # None
    /\ \A i \in Ids : registry[i] = None \/ registry[i].val \in SpanNames
    /\ Len(markers) <= 2
    /\ Len(open) <= MaxDepth
    /\ \A k \in 1..Len(open) : open[k] \in Ids
    /\ nested \in BOOLEAN
    /\ balance \in Int

\* ------------------------------------------------------------------------
\* Reference renderings used by the properties
\* ------------------------------------------------------------------------

\* a field the skip rule drops
Skipped(f, logFeature) ==
    /\ logFeature
    /\ f.name # Message
    /\ StartsWith(f.name, LogPrefix)

\* the fields that are rendered, in presented order
NonSkipped(fs, logFeature) == SelectSeq(fs, LAMBDA f : ~Skipped(f, logFeature))

\* the bare debug value for the message field, name=value otherwise
Rendered(f) ==
    IF f.name = Message THEN DebugFmt(f.value)
    ELSE f.name \o <<"=">> \o DebugFmt(f.value)

\* sep item1 sep item2 ...
RECURSIVE PrefixEach(_, _)
PrefixEach(fs, sep) ==
    IF fs = <<>> THEN <<>>
    ELSE sep \o Rendered(Head(fs)) \o PrefixEach(Tail(fs), sep)

\* item1 sep item2 sep ...
RECURSIVE SuffixEach(_, _)
SuffixEach(fs, sep) ==
    IF fs = <<>> THEN <<>>
    ELSE Rendered(Head(fs)) \o sep \o SuffixEach(Tail(fs), sep)

\* item1 sep item2 ... with no separator after the last item
JoinWith(fs, sep) ==
    IF fs = <<>> THEN <<>>
    ELSE Rendered(Head(fs)) \o PrefixEach(Tail(fs), sep)

\* the span label as C1 words it: name,item1,item2
CommaLabel(name, fs, logFeature) ==
    name \o PrefixEach(NonSkipped(fs, logFeature), <<",">>)

\* the span label the visitor writes: name, then a comma when any field is
\* rendered, then each rendered field preceded by one space
CommaSpaceLabel(name, fs, logFeature) ==
    LET shown == NonSkipped(fs, logFeature)
    IN  IF shown = <<>> THEN name
        ELSE name \o <<",">> \o PrefixEach(shown, <<" ">>)

\* the event text as C10 words it: items separated by one space
SpaceSeparated(fs, logFeature) == JoinWith(NonSkipped(fs, logFeature), <<" ">>)

\* the event text the visitor writes: each rendered field followed by a space
SpaceTerminated(fs, logFeature) ==
    SuffixEach(NonSkipped(fs, logFeature), <<" ">>)

\* the last callback was op and returned normally
Returned(op) == last.op = op /\ last.outcome = Ok

\* the same of the callback that makes the step
ReturnedNext(op) == last'.op = op /\ last'.outcome = Ok

\* the span has a context record that callbacks can reach: a new-span stored
\* it, no close removed it, and no callback that failed while writing to the
\* span's extensions has left their lock poisoned
Live(id) == created[id] /\ ~poisoned[id]

Str_req_sp_id42 == <<"r", "e", "q", ",", " ", "i", "d", "=", "4", "2">>

\* ------------------------------------------------------------------------
\* C1
\* ------------------------------------------------------------------------

\* C1 as stated: the begin payload of an enter is the span name followed, for
\* each non-skipped field of the span's field set in presented order, by a
\* comma and the bare message value or name=value, and nothing else.
C1_AsStated ==
    Returned("enter") =>
        markers[1].payload =
            CommaLabel(registry[last.id].val, snapshot[last.id].val, log_feature)

\* C1 amended: the begin payload of an enter is the span name; when at least
\* one field is not skipped it is followed by one comma and then, for each
\* non-skipped field in presented order, one space and the bare message value
\* or name=value (new_span("req", [id=42]) then enter emits "req, id=42").
C1_CommaSpaceLabel ==
    Returned("enter") =>
        /\ Len(markers) = 1
        /\ markers[1].kind = "begin"
        /\ markers[1].payload =
              CommaSpaceLabel(registry[last.id].val, snapshot[last.id].val,
                              log_feature)

\* new_span("req", [id=42]) then enter(id) emitted "req, id=42"
C1_Witness ==
    /\ Returned("enter")
    /\ registry[last.id] = Some(NameReq)
    /\ snapshot[last.id] = Some(<<FId>>)
    /\ markers = <<Begin(last.tid, Str_req_sp_id42)>>

\* ------------------------------------------------------------------------
\* C2
\* ------------------------------------------------------------------------

\* C2: an enter on a live span (created, not closed, its record reachable)
\* returns normally, writes exactly one marker, a begin whose payload is the
\* label stored for the id when the callback started, and leaves the store
\* as it was.
C2_EnterEmitsStoredLabel ==
    [][(last'.op = "enter" /\ Live(last'.id)) =>
          /\ last'.outcome = Ok
          /\ markers' = <<Begin(last'.tid, exts[last'.id].val)>>
          /\ exts' = exts
          /\ poisoned' = poisoned
          /\ registry' = registry]_vars

\* an enter on a live span whose stored label carries two rendered fields
C2_Witness ==
    /\ Returned("enter")
    /\ created[last.id]
    /\ exts[last.id].val = SpanLabel(NameReq, <<FMessage, FId>>, log_feature)
    /\ markers = <<Begin(last.tid, exts[last.id].val)>>

\* ------------------------------------------------------------------------
\* C3
\* ------------------------------------------------------------------------

\* C3: an exit returns normally and writes exactly one marker, an end with an
\* empty payload, whether or not the id was ever created, and leaves the
\* store as it was.
C3_ExitEmitsEnd ==
    [][last'.op = "exit" =>
          /\ last'.outcome = Ok
          /\ Len(markers') = 1
          /\ markers'[1].kind = "end"
          /\ markers'[1].payload = <<>>
          /\ exts' = exts
          /\ registry' = registry]_vars

\* an exit on an id that has no span, while another span is live
C3_Witness ==
    /\ Returned("exit")
    /\ ~created[last.id]
    /\ \E i \in Ids : created[i]
    /\ markers = <<End(last.tid)>>

\* ------------------------------------------------------------------------
\* C4
\* ------------------------------------------------------------------------

\* C4: an event writes exactly two markers, first a begin carrying the event
\* text of the presented fields, then an end with an empty payload, and it
\* leaves the store as it was.
C4_EventEmitsPair ==
    [][last'.op = "event" =>
          /\ last'.outcome = Ok
          /\ Len(markers') = 2
          /\ markers'[1].kind = "begin"
          /\ markers'[1].payload = EventText(last'.fields, log_feature)
          /\ markers'[2].kind = "end"
          /\ markers'[2].payload = <<>>
          /\ exts' = exts
          /\ registry' = registry]_vars

\* an event with two fields, delivered while a span is live
C4_Witness ==
    /\ Returned("event")
    /\ Len(last.fields) = 2
    /\ \E i \in Ids : created[i]
    /\ Len(markers) = 2
    /\ markers[1].payload # <<>>

\* ------------------------------------------------------------------------
\* C5
\* ------------------------------------------------------------------------

\* C5: a span has a context record exactly when a new-span was processed for
\* its id and no close since; record, enter, exit and event neither create
\* nor remove a record, and neither does the registry when it registers a
\* span, counts a reference up, or counts one down while others are left
\* (no close is processed then).
C5_RecordIffCreatedNotClosed ==
    /\ [](\A i \in Ids : (exts[i] # None) <=> created[i])
    /\ [][last'.op \in {"record", "enter", "exit", "event"} =>
             \A i \in Ids : (exts'[i] = None) <=> (exts[i] = None)]_vars
    /\ [][last'.op \in {"registry_new_span", "clone_span", "try_close"} =>
             exts' = exts /\ created' = created]_vars

\* a handle of a span was dropped while its child still holds a reference:
\* no close was processed, and the span and its child keep their records
C5_Witness ==
    /\ last.op = "try_close"
    /\ last.outcome = ReturnedFalse
    /\ registry[last.id] # None
    /\ refs[last.id] >= 1
    /\ exts[last.id] # None
    /\ \E c \in Ids : parent[c] = Some(last.id) /\ exts[c] # None

\* ------------------------------------------------------------------------
\* C6
\* ------------------------------------------------------------------------

\* C6: the label stored for a live span is the span-label rendering of the
\* span's name with the whole field set of the latest new-span or record
\* callback for it: nothing of an earlier field set survives.
C6_LabelIsLatestSnapshot ==
    \A i \in Ids :
        created[i] =>
            exts[i] = Some(SpanLabel(registry[i].val, snapshot[i].val,
                                     log_feature))

\* a record with one field replaced a label that was made from another field
C6_Witness ==
    /\ Returned("record")
    /\ last.replaced
    /\ snapshot[last.id] = Some(<<FMessage>>)
    /\ exts[last.id] = Some(SpanLabel(NameReq, <<FMessage>>, log_feature))

\* ------------------------------------------------------------------------
\* C7
\* ------------------------------------------------------------------------

\* C7: enter, record and close on an id with no live context record (never
\* created, closed, or its record out of reach behind a poisoned lock)
\* panic: nothing is written to the sink, the store is left as it was, and
\* no record appears for an id that had none.  A reference dropped on an id
\* the registry does not hold never reaches the layer: the registry panics
\* (or, on a thread that is unwinding, returns false), with no marker and no
\* record made.
C7_DeadIdPanics ==
    /\ [][(last'.op \in {"enter", "record", "close"} /\ ~Live(last'.id)) =>
             /\ last'.outcome # Ok
             /\ markers' = <<>>
             /\ exts' = exts
             /\ ~created[last'.id] => exts'[last'.id] = None
             /\ registry' = registry]_vars
    /\ [][(last'.op = "try_close" /\ registry[last'.id] = None) =>
             /\ last'.outcome # Ok
             /\ markers' = <<>>
             /\ exts' = exts
             /\ registry' = registry]_vars

\* thread 1 is in the close of a span: its on_close has returned, so the
\* record that a new-span stored is removed; thread 2 enters the span and
\* panics
C7_Witness ==
    /\ last.op = "enter"
    /\ last.tid = 2
    /\ last.outcome = PanicMissingFields
    /\ closing[1].at = "drop"
    /\ closing[1].id = last.id
    /\ ~closing[1].panicking
    /\ exts[last.id] = None
    /\ markers = <<>>

\* ------------------------------------------------------------------------
\* C8
\* ------------------------------------------------------------------------

\* C8 as stated: a new-span for an id that has a live context record panics
\* instead of inserting: the store is as it was before the callback.
C8_AsStated ==
    [][(last'.op = "new_span" /\ Live(last'.id)) =>
          /\ last'.outcome # Ok
          /\ exts' = exts]_vars

\* C8 amended: a new-span for an id that has a live context record panics in
\* insert after the insert has taken effect: the id still has one record,
\* which now holds the label of the second new-span; the lock of the span's
\* extensions is left poisoned unless the build uses parking_lot; the other
\* ids keep their records and nothing is written to the sink.
C8_DuplicateNewSpanReplaces ==
    [][(last'.op = "new_span" /\ Live(last'.id)) =>
          /\ last'.outcome = PanicInsert
          /\ exts' = [exts EXCEPT ![last'.id] =
                         Some(CommaSpaceLabel(registry[last'.id].val,
                                              snapshot'[last'.id].val,
                                              log_feature))]
          /\ poisoned' = [poisoned EXCEPT ![last'.id] = ~parking_lot]
          /\ created' = created
          /\ registry' = registry
          /\ markers' = <<>>]_vars

\* a second new-span with the field id=42 panicked in insert; the record of
\* the span holds its label and the lock of its extensions is poisoned
C8_Witness ==
    /\ last.op = "new_span"
    /\ last.outcome = PanicInsert
    /\ snapshot[last.id] = Some(<<FId>>)
    /\ exts[last.id] = Some(Str_req_sp_id42)
    /\ poisoned[last.id]

\* ------------------------------------------------------------------------
\* C9
\* ------------------------------------------------------------------------

\* C9: a record on a live span whose field set renders to the stored label
\* does not assign the label; one that renders to another text stores that
\* text; and the same record applied again changes nothing and assigns
\* nothing.
C9_RecordIdempotent ==
    [][(last'.op = "record" /\ Live(last'.id)) =>
          LET id == last'.id
              text == SpanLabel(registry[id].val, snapshot'[id].val, log_feature)
              again == RecordUpdate(exts'[id].val, text)
          IN  /\ last'.outcome = Ok
              /\ exts[id].val = text => (~last'.replaced /\ exts' = exts)
              /\ exts[id].val # text =>
                    (last'.replaced /\ exts' = [exts EXCEPT ![id] = Some(text)])
              /\ ~again.replaced
              /\ again.label = exts'[id].val]_vars

\* a record that rendered to the stored label and assigned nothing
C9_Witness ==
    /\ Returned("record")
    /\ ~last.replaced
    /\ snapshot[last.id].val # <<>>
    /\ exts[last.id] = Some(SpanLabel(registry[last.id].val,
                                      snapshot[last.id].val, log_feature))

\* ------------------------------------------------------------------------
\* C10
\* ------------------------------------------------------------------------

\* C10 as stated: the event text is the non-skipped fields in presented
\* order, the message as its bare value and the others as name=value,
\* separated by one space, with nothing after the last field.
C10_AsStated ==
    Returned("event") =>
        markers[1].payload = SpaceSeparated(last.fields, log_feature)

\* C10 amended: the event text is the non-skipped fields in presented order,
\* the message as its bare value and the others as name=value, each followed
\* by one space, the last one included, and no span name in front; a field
\* set holding only the message renders as the bare value and one space.
C10_SpaceTerminated ==
    Returned("event") =>
        /\ markers[1].payload = SpaceTerminated(last.fields, log_feature)
        /\ last.fields = <<FMessage>> =>
              markers[1].payload = DebugFmt(FMessage.value) \o <<" ">>

\* an event with the message and another field in front of it
C10_Witness ==
    /\ Returned("event")
    /\ last.fields = <<FId, FMessage>>
    /\ markers[1].payload = <<"i", "d", "=", "4", "2", " ", "h", "i", " ">>

\* ------------------------------------------------------------------------
\* C11
\* ------------------------------------------------------------------------

\* C11: with an empty field set the span label is exactly the span name and
\* the event text is empty: an enter after a new-span (or record) without
\* fields emits a begin whose payload is the span name, and an event without
\* fields emits a begin with an empty payload.
C11_EmptyFieldSet ==
    /\ (Returned("enter") /\ snapshot[last.id] = Some(<<>>)) =>
           markers = <<Begin(last.tid, registry[last.id].val)>>
    /\ (Returned("event") /\ last.fields = <<>>) =>
           markers[1] = Begin(last.tid, <<>>)

\* an enter on span "req" whose field set is empty
C11_Witness ==
    /\ Returned("enter")
    /\ snapshot[last.id] = Some(<<>>)
    /\ markers = <<Begin(last.tid, NameReq)>>

\* ------------------------------------------------------------------------
\* C12
\* ------------------------------------------------------------------------

\* a name that begins with the four characters l o g .
IsLogName(n) ==
    /\ Len(n) >= 4
    /\ n[1] = "l" /\ n[2] = "o" /\ n[3] = "g" /\ n[4] = "."

\* the field set without the fields whose name starts with "log."
WithoutLogFields(fs) == SelectSeq(fs, LAMBDA f : ~IsLogName(f.name))

\* C12: built with the skip rule, a span label and an event text are what
\* they would be had the "log." fields not been presented at all (so a field
\* set of "log." fields only renders like the empty one); built without the
\* rule, every "log." field is written as name=value like any other field.
C12_LogFieldsSkipped ==
    /\ Returned("enter") =>
          LET fs == snapshot[last.id].val
              name == registry[last.id].val
          IN  markers[1].payload =
                 IF log_feature
                 THEN SpanLabel(name, WithoutLogFields(fs), FALSE)
                 ELSE IF fs = <<>> THEN name
                      ELSE name \o <<",">> \o PrefixEach(fs, <<" ">>)
    /\ Returned("event") =>
          markers[1].payload =
             IF log_feature
             THEN EventText(WithoutLogFields(last.fields), FALSE)
             ELSE SuffixEach(last.fields, <<" ">>)

\* with the rule, an event presenting another field and then a "log." field
\* traced the other field only
C12_Witness ==
    /\ Returned("event")
    /\ log_feature
    /\ last.fields = <<FId, FLogX>>
    /\ markers[1].payload = <<"i", "d", "=", "4", "2", " ">>

\* ------------------------------------------------------------------------
\* C18
\* ------------------------------------------------------------------------

\* C18: new-span, record and close write no marker and leave the record of
\* every other span id alone; whatever reaches the sink is written by the
\* enter, exit or event callback that is running.
C18_OnlyEnterExitEventEmit ==
    [][/\ last'.op \in {"new_span", "record", "close"} =>
             /\ markers' = <<>>
             /\ \A i \in Ids \ {last'.id} :
                   exts'[i] = exts[i] /\ registry'[i] = registry[i]
       /\ markers' # <<>> => last'.op \in {"enter", "exit", "event"}]_vars

\* the last reference of a child span was dropped and its on_close removed
\* its record: nothing was written to the sink, and the parent, which the
\* registry releases next, still has its record
C18_Witness ==
    /\ Returned("close")
    /\ closing[last.tid].at = "drop"
    /\ closing[last.tid].id = last.id
    /\ markers = <<>>
    /\ exts[last.id] = None
    /\ parent[last.id].some
    /\ exts[parent[last.id].val] # None

\* ------------------------------------------------------------------------
\* C13
\* ------------------------------------------------------------------------

\* the span label when the field named data, not "message", is the one
\* written bare
RECURSIVE DataFieldItems(_, _)
DataFieldItems(fs, data) ==
    IF fs = <<>> THEN <<>>
    ELSE LET f == Head(fs)
         IN  <<" ">> \o (IF f.name = data THEN DebugFmt(f.value)
                         ELSE f.name \o <<"=">> \o DebugFmt(f.value))
                  \o DataFieldItems(Tail(fs), data)

DataFieldLabel(name, fs, data, logFeature) ==
    LET shown == NonSkipped(fs, logFeature)
    IN  IF shown = <<>> THEN name
        ELSE name \o <<",">> \o DataFieldItems(shown, data)

\* C13: once with_data_field(Some(n)) has configured the layer, the label an
\* enter emits has the field named n as its bare value and every other field
\* as name=value.
C13_AsStated ==
    (Returned("enter") /\ data_field # None) =>
        markers[1].payload =
            DataFieldLabel(registry[last.id].val, snapshot[last.id].val,
                           data_field.val, log_feature)

\* ------------------------------------------------------------------------
\* C15
\* ------------------------------------------------------------------------

\* a text without a line break
NewlineFree(text) == \A k \in 1..Len(text) : text[k] # "\n"

\* C15: no begin marker carries a line break in its payload.
C15_AsStated ==
    \A k \in 1..Len(markers) :
        markers[k].kind = "begin" => NewlineFree(markers[k].payload)

\* ------------------------------------------------------------------------
\* C19
\* ------------------------------------------------------------------------

\* the hexadecimal digits of the addresses in FutAddrs
FutHex(a) == CASE a = 26 -> <<"1", "a">>
               [] a = 255 -> <<"f", "f">>
               [] a = 4096 -> <<"1", "0", "0", "0">>

\* name, __fut=0x<address>
FutLabel(name, a) ==
    name \o <<",", " ", "_", "_", "f", "u", "t", "=", "0", "x">> \o FutHex(a)

\* C19: instrument writes no marker; on a live span that declares "__fut" it
\* makes one record of that single field, after which the stored label is
\* the span name followed by the rendering of __fut alone, and an enter
\* emits that label; on a span that does not declare the field it changes
\* nothing.
C19_InstrumentRecordsFut ==
    /\ [][last'.op = "instrument" =>
             LET id == last'.id
                 name == registry[id].val
                 a == last'.fields[1].value.int
             IN  /\ markers' = <<>>
                 /\ registry' = registry
                 /\ Len(last'.fields) = 1
                 /\ (name \in FutSpans /\ Live(id)) =>
                       /\ last'.outcome = Ok
                       /\ exts' = [exts EXCEPT ![id] = Some(FutLabel(name, a))]
                       /\ snapshot'[id] = Some(last'.fields)
                 /\ name \notin FutSpans =>
                       /\ last'.outcome = Ok
                       /\ exts' = exts]_vars
    /\ [](\A a \in FutAddrs :
             (Returned("enter") /\ snapshot[last.id] = Some(<<FFut(a)>>)) =>
                 markers = <<Begin(last.tid,
                                   FutLabel(registry[last.id].val, a))>>)

\* an enter after instrument: the label is "a, __fut=0xff"
C19_Witness ==
    /\ Returned("enter")
    /\ snapshot[last.id] = Some(<<FFut(255)>>)
    /\ markers[1].payload =
          <<"a", ",", " ", "_", "_", "f", "u", "t", "=", "0", "x", "f", "f">>

\* ------------------------------------------------------------------------
\* C14, C17: the marker sequence of one thread as the sink pairs it
\* ------------------------------------------------------------------------

\* the end written by an exit was matched with the begin of enter(id)
ExitMatchedOwnEnter ==
    /\ stack # <<>>
    /\ matched' = <<Source("enter", last'.id)>>
    /\ stack' = SubSeq(stack, 1, Len(stack) - 1)

\* the end written by an event was matched with that event's own begin
EventMatchedOwnBegin ==
    /\ matched' = <<Source("event", 0)>>
    /\ stack' = stack

\* C14 as stated: on one thread where every exit(id) follows an unmatched
\* enter(id), the end of each exit(id) is matched by the sink with the begin
\* of that enter(id), and each event's end with that event's begin.
C14_AsStated ==
    [][/\ (last'.op = "exit" /\ InOpen(last'.id)) => ExitMatchedOwnEnter
       /\ last'.op = "event" => EventMatchedOwnBegin]_vars

\* C14 amended: on one thread where every exit(id) so far was for the most
\* recently entered span not yet exited, the end of each such exit(id) is
\* matched by the sink with the begin of that enter(id); each event's end is
\* matched with that event's begin, whatever the order of the exits.
C14_NestedExitsPair ==
    [][/\ (/\ last'.op = "exit"
           /\ nested
           /\ open # <<>>
           /\ open[Len(open)] = last'.id) => ExitMatchedOwnEnter
       /\ last'.op = "event" => EventMatchedOwnBegin]_vars

\* span 2 entered inside span 1 and exited first: its end met its own begin
C14_Witness ==
    /\ Returned("exit")
    /\ last.id = 2
    /\ nested
    /\ open = <<1>>
    /\ matched = <<Source("enter", 2)>>
    /\ stack = <<Source("enter", 1)>>

\* no prefix of the markers a callback writes has more ends than begins
NoPrefixUnderflow ==
    \A k \in 1..Len(markers') : balance + Net(SubSeq(markers', 1, k)) >= 0

\* C17: in the marker sequence of a thread where every exit follows an
\* unmatched enter, no prefix holds more end markers than begin markers, and
\* once every entered span has been exited the two counts are equal.
C17_MarkersBalanced ==
    /\ [](balance >= 0)
    /\ [](open = <<>> => balance = 0)
    /\ [][NoPrefixUnderflow]_vars

\* two spans were entered and both exited again, with events in between
C17_Witness ==
    /\ Returned("exit")
    /\ open = <<>>
    /\ balance = 0
    /\ matched # <<>>
    /\ ~nested

\* ------------------------------------------------------------------------
\* C16: callbacks of different spans on different threads
\* ------------------------------------------------------------------------

\* a callback leaves the label and the history of every other span alone
OtherSpansUntouched ==
    \A i \in Ids :
        (last'.op = "event" \/ last'.id # i) =>
            /\ exts'[i] = exts[i]
            /\ registry'[i] = registry[i]
            /\ snapshot'[i] = snapshot[i]

\* the label of an id is a function of the callbacks on that id alone
LabelFromOwnCallbacks ==
    \A i \in Ids :
        exts[i] # None =>
            /\ snapshot[i] # None
            /\ registry[i] # None
            /\ exts[i].val =
                   CommaSpaceLabel(registry[i].val, snapshot[i].val, log_feature)

\* C16: with callbacks of different span ids interleaved over two threads,
\* the stored label of each id and the payload of its enter marker are those
\* its own callbacks alone produce; a callback on one id changes nothing of
\* another id.
C16_NoInterference ==
    /\ [][OtherSpansUntouched]_vars
    /\ [](LabelFromOwnCallbacks)
    /\ [](Returned("enter") =>
            markers = <<Begin(last.tid,
                              CommaSpaceLabel(registry[last.id].val,
                                              snapshot[last.id].val,
                                              log_feature))>>)

\* thread 1 has dropped a child span and cleared it, and is about to release
\* the child's reference to the parent; thread 2 enters the parent, whose
\* record is as its own callbacks left it
C16_Witness ==
    /\ Returned("enter")
    /\ last.tid = 2
    /\ closing[1].at = "release"
    /\ closing[1].id = last.id
    /\ closing[1].outer # <<>>
    /\ exts[last.id] # None
    /\ snapshot[last.id] = Some(<<FId>>)

====
